---------------------------- MODULE Spec2Model ----------------------------
(***************************************************************************)
(* Model of the Kademlia DHT evaluation harness of src/index.js:           *)
(* parseProviderKey, sort_closest_nodes_dht, map_nodes_to_peerids and the  *)
(* main run (create nodes, link them in a chain, provide, closest-peers    *)
(* query, provider-store inspection, findProviders, stop).                 *)
(*                                                                         *)
(* JavaScript arrays are sequences; a JavaScript index i is position i + 1 *)
(* of the sequence (operator At).  A string is a sequence of symbols: the  *)
(* separator "/" and slash-free chunks of text ("providers", a CID text,   *)
(* the Base32 text of a peer id), so that String.split('/') is computed    *)
(* symbol by symbol.                                                       *)
(***************************************************************************)
EXTENDS Integers, Sequences, FiniteSets, TLC

\* Number of nodes of a run (40 at src/index.js:136, scaled down).
NumNodes == 3
\* Longest raw key, in symbols, handed to parseProviderKey by ParseSpec.
MaxKeyLen == 6
\* Longest sequence the closest-peers capability returns (the DHT's
\* kBucketSize, 20 at src/index.js:56, scaled down).
MaxClosest == 2
\* Most provider-store writes the DHT performs in the background of a run.
MaxWrites == 2
\* Longest sequence findProviders returns.
MaxProviders == 1

\* Peer identifiers: one more than the roster needs, so that the network
\* always holds an identifier that is no roster member.
PeerIds == 1 .. (NumNodes + 1)

VARIABLES
  pc,             \* position of the main async function
  index,          \* the loop counter `index` of the loop main is in
  nodes,          \* the roster `nodes`: peer id of each created node
  addressBook,    \* entries set by peerStore.addressBook.set
  node_mappings,  \* result of map_nodes_to_peerids (Base58 texts)
  sorted_peers,   \* what getClosestPeers returned
  consumed,       \* how many of sorted_peers the for-await loop has taken
  closest_peers,  \* the array sort_closest_nodes_dht builds
  dhtnodes,       \* main's `dhtnodes`
  store,          \* per node: the keys of _dht.providers.datastore.data
  writes,         \* background provider-store writes so far
  log,            \* one record per inspected node: what was read and printed
  providers,      \* result of findProviders
  stopped,        \* indices of the nodes whose stop() was invoked
  events,         \* the capability calls of the run, in order
  rawKey,         \* ParseSpec: the key handed to parseProviderKey
  parseResult     \* ParseSpec: what parseProviderKey did with rawKey

vars == << pc, index, nodes, addressBook, node_mappings, sorted_peers,
           consumed, closest_peers, dhtnodes, store, writes, log, providers,
           stopped, events, rawKey, parseResult >>

harnessVars == << pc, index, nodes, addressBook, node_mappings, sorted_peers,
                  consumed, closest_peers, dhtnodes, store, writes, log,
                  providers, stopped, events >>

-----------------------------------------------------------------------------
(* Arrays and strings *)

At(arr, i) == arr[i + 1]

Last(arr) == arr[Len(arr)]

RECURSIVE SeqsUpTo(_, _)
SeqsUpTo(S, n) ==
  IF n = 0 THEN { << >> }
  ELSE LET shorter == SeqsUpTo(S, n - 1)
       IN  shorter \cup { Append(s, x) : s \in shorter, x \in S }

Slash == "/"

\* String.prototype.split('/'): the segments between the separators; the
\* empty string splits into one empty segment.
RECURSIVE Split(_)
Split(s) ==
  IF s = << >> THEN << << >> >>
  ELSE LET rest == Split(Tail(s))
       IN  IF Head(s) = Slash
           THEN << << >> >> \o rest
           ELSE << << Head(s) >> \o Head(rest) >> \o Tail(rest)

Threw == [threw |-> TRUE, cid |-> << >>, peerId |-> << >>]

\* A parser that takes the segments one place early.
parseProviderKey_index(key) ==
  LET parts == Split(key)
  IN  IF Len(parts) # 4 THEN Threw
      ELSE [threw |-> FALSE, cid |-> parts[2], peerId |-> parts[3]]

\* A parser that only asks for at least four segments.
parseProviderKey_atleast(key) ==
  LET parts == Split(key)
  IN  IF Len(parts) < 4 THEN Threw
      ELSE [threw |-> FALSE, cid |-> parts[3], peerId |-> parts[4]]

\* parts[2] and parts[3] of the code are segments 3 and 4 of the sequence.
parseProviderKey(key) ==
  LET parts == Split(key)
  IN  IF Len(parts) # 4 THEN Threw
      ELSE [threw |-> FALSE, cid |-> parts[3], peerId |-> parts[4]]

\* PeerId.toB58String and the _idB58String field it caches.
toB58String(p) == "Qm" \o ToString(p)

\* The Base32 text under which the DHT stores a peer id in a provider key.
encodeBase32(p) == << "b" \o ToString(p) >>

NoPeer == 0

\* utils.decodeBase32 followed by PeerId.createFromBytes: the peer id the
\* text encodes, NoPeer when either call throws.
decodePeer(text) ==
  IF \E p \in PeerIds : encodeBase32(p) = text
  THEN CHOOSE p \in PeerIds : encodeBase32(p) = text
  ELSE NoPeer

CidText == << "cid" >>

ProviderKey(cidText, peerText) ==
  << Slash, "providers", Slash >> \o cidText \o << Slash >> \o peerText

-----------------------------------------------------------------------------
(* ParseSpec: parseProviderKey applied to every raw key of at most          *)
(* MaxKeyLen symbols.                                                       *)

Alphabet == { Slash, "providers", "cid", "b1" }

RawKeys == SeqsUpTo(Alphabet, MaxKeyLen)

NotCalled == [threw |-> FALSE, cid |-> << "?" >>, peerId |-> << "?" >>]

HarnessInit ==
  /\ pc = "create"
  /\ index = 0
  /\ nodes = << >>
  /\ addressBook = { }
  /\ node_mappings = << >>
  /\ sorted_peers = << >>
  /\ consumed = 0
  /\ closest_peers = << >>
  /\ dhtnodes = << >>
  /\ store = [n \in 0 .. (NumNodes - 1) |-> << >>]
  /\ writes = 0
  /\ log = << >>
  /\ providers = << >>
  /\ stopped = { }
  /\ events = << >>

ParseInit ==
  /\ HarnessInit
  /\ rawKey \in RawKeys
  /\ parseResult = NotCalled

ParseCall ==
  /\ parseResult = NotCalled
  /\ parseResult' = parseProviderKey(rawKey)
  /\ UNCHANGED << harnessVars, rawKey >>

ParseNext == ParseCall

ParseSpec == ParseInit /\ [][ParseNext]_vars


-----------------------------------------------------------------------------
(* The run of main *)

Event(op, node) == [op |-> op, node |-> node]

Range(arr) == { arr[i] : i \in 1 .. Len(arr) }

\* Array.prototype.findIndex over the roster with the predicate of
\* sort_closest_nodes_dht: the first index whose Base58 text equals the
\* target's, -1 when there is none.
RECURSIVE findIndexFrom(_, _, _)
findIndexFrom(peers, idB58String, i) ==
  IF i >= Len(peers) THEN -1
  ELSE IF toB58String(At(peers, i)) = idB58String THEN i
  ELSE findIndexFrom(peers, idB58String, i + 1)

findIndex(peers, idB58String) == findIndexFrom(peers, idB58String, 0)

map_nodes_to_peerids(ns) == [i \in 1 .. Len(ns) |-> toB58String(ns[i])]

\* A forEach body that passes over a key it cannot parse or decode.
RECURSIVE forEachItem_skip(_, _)
forEachItem_skip(data, printed) ==
  IF data = << >> THEN [threw |-> FALSE, printed |-> printed]
  ELSE LET peer_b32 == parseProviderKey(Head(data))
           id       == IF peer_b32.threw THEN NoPeer
                       ELSE decodePeer(peer_b32.peerId)
       IN  IF id = NoPeer THEN forEachItem_skip(Tail(data), printed)
           ELSE forEachItem_skip(Tail(data), Append(printed, toB58String(id)))

\* The body of data.forEach: parse each key, decode its peer text, print the
\* peer's Base58 text; the first key that fails to parse or decode throws.
RECURSIVE forEachItem(_, _)
forEachItem(data, printed) ==
  IF data = << >> THEN [threw |-> FALSE, printed |-> printed]
  ELSE LET peer_b32 == parseProviderKey(Head(data))
       IN  IF peer_b32.threw THEN [threw |-> TRUE, printed |-> printed]
           ELSE LET id == decodePeer(peer_b32.peerId)
                IN  IF id = NoPeer THEN [threw |-> TRUE, printed |-> printed]
                    ELSE forEachItem(Tail(data),
                                     Append(printed, toB58String(id)))

\* Keys the datastore of a node may hold: a provider record of the test CID
\* naming the first or the last node of the roster ns, a key of another
\* shape, and a provider key whose peer text is no Base32 text of a peer id.
StoreKeys(ns) ==
  { ProviderKey(CidText, encodeBase32(p)) : p \in { At(ns, 0), Last(ns) } }
    \cup { << Slash, "providers", Slash, "cid" >>,
           ProviderKey(CidText, << "providers" >>) }

\* What getClosestPeers may return: at most MaxClosest peers, none twice.
ClosestPeersResults ==
  { s \in SeqsUpTo(PeerIds, MaxClosest) :
      \A a, b \in 1 .. Len(s) : a # b => s[a] # s[b] }

\* The identifiers a new node may get: peer ids are opaque and only compared
\* for equality, so they are handed out in increasing order, leaving enough
\* of them for the nodes still to come.
FreshPeerIds(ns) ==
  { p \in PeerIds :
      /\ \A q \in Range(ns) : q < p
      /\ Cardinality(PeerIds) - p >= NumNodes - Len(ns) - 1 }

Init ==
  /\ HarnessInit
  /\ rawKey = << >>
  /\ parseResult = NotCalled

\* src/index.js:136-138 and createNode: one more node created and started.
CreateNode ==
  /\ pc = "create"
  /\ \E p \in FreshPeerIds(nodes) :
       nodes' = Append(nodes, p)
  /\ events' = Append(events, Event("start", index))
  /\ IF index + 1 < NumNodes
     THEN pc' = "create" /\ index' = index + 1
     ELSE pc' = "link" /\ index' = 0
  /\ UNCHANGED << addressBook, node_mappings, sorted_peers, consumed,
                  closest_peers, dhtnodes, store, writes, log, providers,
                  stopped, rawKey, parseResult >>

\* Libp2p.create or node.start rejects: main's promise rejects.
CreateNodeFails ==
  /\ pc = "create"
  /\ pc' = "failed"
  /\ UNCHANGED << index, nodes, addressBook, node_mappings, sorted_peers,
                  consumed, closest_peers, dhtnodes, store, writes, log,
                  providers, stopped, events, rawKey, parseResult >>

\* A linking loop that sets the link the other way round.
LinkNodes_reversed ==
  /\ pc = "link"
  /\ index < Len(nodes) - 1
  /\ addressBook' = addressBook \cup
       { [owner |-> index + 1, peerId |-> At(nodes, index),
          multiaddrs |-> index] }
  /\ events' = Append(events, Event("link", index))
  /\ index' = index + 1
  /\ UNCHANGED << pc, nodes, node_mappings, sorted_peers, consumed,
                  closest_peers, dhtnodes, store, writes, log, providers,
                  stopped, rawKey, parseResult >>

\* src/index.js:140-142, one iteration.
LinkNodes ==
  /\ pc = "link"
  /\ index < Len(nodes) - 1
  /\ addressBook' = addressBook \cup
       { [owner |-> index, peerId |-> At(nodes, index + 1),
          multiaddrs |-> index + 1] }
  /\ events' = Append(events, Event("link", index))
  /\ index' = index + 1
  /\ UNCHANGED << pc, nodes, node_mappings, sorted_peers, consumed,
                  closest_peers, dhtnodes, store, writes, log, providers,
                  stopped, rawKey, parseResult >>

\* src/index.js:145-153: the loop is over, the texts are mapped, delay starts.
MapNodes ==
  /\ pc = "link"
  /\ ~ (index < Len(nodes) - 1)
  /\ node_mappings' = map_nodes_to_peerids(nodes)
  /\ events' = Append(events, Event("delay", 0))
  /\ pc' = "delay"
  /\ UNCHANGED << index, nodes, addressBook, sorted_peers, consumed,
                  closest_peers, dhtnodes, store, writes, log, providers,
                  stopped, rawKey, parseResult >>

\* src/index.js:153-157: the delay is over, the last node is asked to provide.
DelayElapsed ==
  /\ pc = "delay"
  /\ events' = Append(events, Event("provide", Len(nodes) - 1))
  /\ pc' = "provide"
  /\ UNCHANGED << index, nodes, addressBook, node_mappings, sorted_peers,
                  consumed, closest_peers, dhtnodes, store, writes, log,
                  providers, stopped, rawKey, parseResult >>

\* src/index.js:157-161 and 123-124: provide resolved, getClosestPeers is
\* asked of node 0.
ProvideReturns ==
  /\ pc = "provide"
  /\ events' = events \o << Event("provideReturned", Len(nodes) - 1),
                            Event("getClosestPeers", 0) >>
  /\ pc' = "closest"
  /\ UNCHANGED << index, nodes, addressBook, node_mappings, sorted_peers,
                  consumed, closest_peers, dhtnodes, store, writes, log,
                  providers, stopped, rawKey, parseResult >>

ProvideFails ==
  /\ pc = "provide"
  /\ pc' = "failed"
  /\ UNCHANGED << index, nodes, addressBook, node_mappings, sorted_peers,
                  consumed, closest_peers, dhtnodes, store, writes, log,
                  providers, stopped, events, rawKey, parseResult >>

\* src/index.js:124-125: the capability returns a finite sequence of
\* distinct peers, roster members or not, in the order it ranks them.
GetClosestPeersReturns ==
  /\ pc = "closest"
  /\ sorted_peers' \in ClosestPeersResults
  /\ closest_peers' = << >>
  /\ consumed' = 0
  /\ events' = Append(events, Event("getClosestPeersReturned", 0))
  /\ pc' = "forawait"
  /\ UNCHANGED << index, nodes, addressBook, node_mappings, dhtnodes, store,
                  writes, log, providers, stopped, rawKey, parseResult >>

GetClosestPeersFails ==
  /\ pc = "closest"
  /\ pc' = "failed"
  /\ UNCHANGED << index, nodes, addressBook, node_mappings, sorted_peers,
                  consumed, closest_peers, dhtnodes, store, writes, log,
                  providers, stopped, events, rawKey, parseResult >>

\* src/index.js:126-129, one iteration of the for-await loop.
ForAwaitStep ==
  /\ pc = "forawait"
  /\ consumed < Len(sorted_peers)
  /\ LET sorted == At(sorted_peers, consumed)
         peer   == findIndex(nodes, toB58String(sorted))
     IN  closest_peers' = Append(closest_peers, peer)
  /\ consumed' = consumed + 1
  /\ UNCHANGED << pc, index, nodes, addressBook, node_mappings, sorted_peers,
                  dhtnodes, store, writes, log, providers, stopped, events,
                  rawKey, parseResult >>

\* src/index.js:130 and 161-162: the loop is over, the array is returned.
ForAwaitDone ==
  /\ pc = "forawait"
  /\ consumed = Len(sorted_peers)
  /\ dhtnodes' = closest_peers
  /\ index' = 0
  /\ pc' = "inspect"
  /\ UNCHANGED << nodes, addressBook, node_mappings, sorted_peers, consumed,
                  closest_peers, store, writes, log, providers, stopped,
                  events, rawKey, parseResult >>

\* src/index.js:163-174, one iteration: nodes[dhtnodes[index]] is read (a
\* TypeError when the position names no node), then every key of its store.
InspectNode ==
  /\ pc = "inspect"
  /\ index < Len(dhtnodes)
  /\ LET position == At(dhtnodes, index)
     IN  /\ events' = Append(events, Event("inspect", position))
         /\ IF position \in 0 .. (Len(nodes) - 1)
            THEN LET data == store[position]
                     done == forEachItem(data, << >>)
                 IN  /\ log' = Append(log, [node |-> position, data |-> data,
                                            printed |-> done.printed,
                                            threw |-> done.threw])
                     /\ IF done.threw
                        THEN pc' = "failed" /\ index' = index
                        ELSE pc' = pc /\ index' = index + 1
            ELSE /\ log' = log
                 /\ pc' = "failed"
                 /\ index' = index
  /\ UNCHANGED << nodes, addressBook, node_mappings, sorted_peers, consumed,
                  closest_peers, dhtnodes, store, writes, providers, stopped,
                  rawKey, parseResult >>

\* A main that does not await findProviders before it stops the nodes.
InspectDone_noAwait ==
  /\ pc = "inspect"
  /\ ~ (index < Len(dhtnodes))
  /\ events' = Append(events, Event("findProviders", 0))
                 \o [i \in 1 .. Len(nodes) |-> Event("stop", i - 1)]
  /\ stopped' = 0 .. (Len(nodes) - 1)
  /\ pc' = "find"
  /\ UNCHANGED << index, nodes, addressBook, node_mappings, sorted_peers,
                  consumed, closest_peers, dhtnodes, store, writes, log,
                  providers, rawKey, parseResult >>

\* src/index.js:176: the loop is over, findProviders is asked of node 0.
InspectDone ==
  /\ pc = "inspect"
  /\ ~ (index < Len(dhtnodes))
  /\ events' = Append(events, Event("findProviders", 0))
  /\ pc' = "find"
  /\ UNCHANGED << index, nodes, addressBook, node_mappings, sorted_peers,
                  consumed, closest_peers, dhtnodes, store, writes, log,
                  providers, stopped, rawKey, parseResult >>

\* src/index.js:176: all(...) resolves with the providers found: the node
\* that announced the content, as often as it was reported, or nobody.
FindProvidersReturns ==
  /\ pc = "find"
  /\ providers' \in SeqsUpTo({ Last(nodes) }, MaxProviders)
  /\ events' = Append(events, Event("findProvidersReturned", 0))
  /\ pc' = "report"
  /\ UNCHANGED << index, nodes, addressBook, node_mappings, sorted_peers,
                  consumed, closest_peers, dhtnodes, store, writes, log,
                  stopped, rawKey, parseResult >>

FindProvidersFails ==
  /\ pc = "find"
  /\ pc' = "failed"
  /\ UNCHANGED << index, nodes, addressBook, node_mappings, sorted_peers,
                  consumed, closest_peers, dhtnodes, store, writes, log,
                  providers, stopped, events, rawKey, parseResult >>

\* src/index.js:178-182: providers[0].id is read (a TypeError when nothing
\* was found), then stop() is invoked on every node.
Report ==
  /\ pc = "report"
  /\ IF providers = << >>
     THEN /\ pc' = "failed"
          /\ UNCHANGED << stopped, events >>
     ELSE /\ stopped' = 0 .. (Len(nodes) - 1)
          /\ events' = events \o [i \in 1 .. Len(nodes) |-> Event("stop", i - 1)]
          /\ pc' = "done"
  /\ UNCHANGED << index, nodes, addressBook, node_mappings, sorted_peers,
                  consumed, closest_peers, dhtnodes, store, writes, log,
                  providers, rawKey, parseResult >>

\* The DHT of node n stores a key while main is suspended in provide or in
\* getClosestPeers.  (Nothing reads a store after the inspection loop, which
\* runs without suspension: later writes are not modelled.)
AddProvider ==
  /\ pc \in { "provide", "closest" }
  /\ writes < MaxWrites
  /\ \E n \in 0 .. (Len(nodes) - 1), key \in StoreKeys(nodes) :
       /\ key \notin Range(store[n])
       /\ store' = [store EXCEPT ![n] = Append(@, key)]
  /\ writes' = writes + 1
  /\ UNCHANGED << pc, index, nodes, addressBook, node_mappings, sorted_peers,
                  consumed, closest_peers, dhtnodes, log, providers, stopped,
                  events, rawKey, parseResult >>

Next ==
  \/ CreateNode
  \/ CreateNodeFails
  \/ LinkNodes
  \/ MapNodes
  \/ DelayElapsed
  \/ ProvideReturns
  \/ ProvideFails
  \/ GetClosestPeersReturns
  \/ GetClosestPeersFails
  \/ ForAwaitStep
  \/ ForAwaitDone
  \/ InspectNode
  \/ InspectDone
  \/ FindProvidersReturns
  \/ FindProvidersFails
  \/ Report
  \/ AddProvider

Spec == Init /\ [][Next]_vars

-----------------------------------------------------------------------------
(* Claims about parseProviderKey, under ParseSpec *)

Called == parseResult # NotCalled

\* Number of segments of a key, counted from its separators.
SegmentCount(key) == Cardinality({ i \in 1 .. Len(key) : key[i] = Slash }) + 1

SlashFree(text) == \A i \in 1 .. Len(text) : text[i] # Slash

\* C3: parseProviderKey fails (MalformedKey) for every raw key whose number
\* of '/'-separated segments differs from 4, and returns no (cid, peer) pair.
C3_MalformedCountRejected ==
  (Called /\ SegmentCount(rawKey) # 4) => parseResult = Threw

\* "/providers/onlyonecid" has been parsed and was rejected.
C3_Witness ==
  /\ rawKey = << Slash, "providers", Slash, "cid" >>
  /\ parseResult = Threw

\* The shape "", "providers", <cid>, <peer>.
WellShaped(key) ==
  /\ SegmentCount(key) = 4
  /\ Len(key) >= 3
  /\ key[1] = Slash
  /\ key[2] = "providers"
  /\ key[3] = Slash

\* C4: parseProviderKey accepts a raw key only when its four segments are
\* "", "providers", a CID text and a peer text; every other key fails.
C4_OnlyProviderShapeAccepted ==
  (Called /\ ~ parseResult.threw) => WellShaped(rawKey)

\* C5: parsing the key "/providers/" + cidText + "/" + peerText returns
\* exactly (cidText, peerText), for every slash-free cidText and peerText.
C5_RoundTrip ==
  Called =>
    \A i \in 4 .. Len(rawKey) :
      LET cidText  == SubSeq(rawKey, 4, i - 1)
          peerText == SubSeq(rawKey, i + 1, Len(rawKey))
      IN  (/\ rawKey = ProviderKey(cidText, peerText)
           /\ SlashFree(cidText)
           /\ SlashFree(peerText))
          => parseResult = [threw |-> FALSE, cid |-> cidText, peerId |-> peerText]

\* "/providers/cid/b1" has been parsed into ("cid", "b1").
C5_Witness ==
  /\ rawKey = ProviderKey(CidText, << "b1" >>)
  /\ parseResult = [threw |-> FALSE, cid |-> CidText, peerId |-> << "b1" >>]

-----------------------------------------------------------------------------
(* Claims about sort_closest_nodes_dht and the inspection loop, under Spec *)

Roster == 0 .. (Len(nodes) - 1)

\* sort_closest_nodes_dht has returned its array to main.
ClosestReturned ==
  pc \notin { "create", "link", "delay", "provide", "closest", "forawait" }

UnknownPeerReturned ==
  \E k \in 1 .. Len(sorted_peers) : sorted_peers[k] \notin Range(nodes)

\* C1: the array sort_closest_nodes_dht returns has the length of the
\* sequence getClosestPeers returned, and its k-th element is the roster
\* position of the k-th returned peer.
C1_PositionsMirrorReturned ==
  ClosestReturned =>
    /\ Len(dhtnodes) = Len(sorted_peers)
    /\ \A k \in 1 .. Len(dhtnodes) :
         /\ dhtnodes[k] \in Roster
         /\ At(nodes, dhtnodes[k]) = sorted_peers[k]

\* What holds of the code: the same, for the returned peers that are roster
\* members; a peer that is none is recorded as -1.
PositionsMirrorReturnedRosterPeers ==
  ClosestReturned =>
    /\ Len(dhtnodes) = Len(sorted_peers)
    /\ \A k \in 1 .. Len(dhtnodes) :
         IF sorted_peers[k] \in Range(nodes)
         THEN dhtnodes[k] \in Roster /\ At(nodes, dhtnodes[k]) = sorted_peers[k]
         ELSE dhtnodes[k] = -1

\* C2: when getClosestPeers returns a peer that matches no roster entry,
\* sort_closest_nodes_dht fails: it returns no array to main.
C2_UnknownPeerFails ==
  UnknownPeerReturned => ~ ClosestReturned

\* C10: every position the inspection loop uses to read a node's provider
\* store is a position 0 .. N-1 of the roster.
C10_InspectedPositionsValid ==
  \A k \in 1 .. Len(events) :
    events[k].op = "inspect" => events[k].node \in Roster

\* C8: a run that has ended, normally or by a failure, has invoked stop on
\* every node it started.
C8_EndedRunStoppedAllNodes ==
  pc \in { "done", "failed" } => stopped = Roster

-----------------------------------------------------------------------------
(* Claims about the provider-store inspection, under Spec *)

\* key is a provider record of the test CID naming peer p.
RecordOf(key, p) == key = ProviderKey(CidText, encodeBase32(p))

IsRecord(key) == \E p \in PeerIds : RecordOf(key, p)

-----------------------------------------------------------------------------
(* Claims about the order of a run, under Spec *)

Ops == << "start", "link", "delay", "provide", "provideReturned",
          "getClosestPeers", "getClosestPeersReturned", "inspect",
          "findProviders", "findProvidersReturned", "stop" >>

\* Place of a capability call in the order of a run.
Rank(op) == CHOOSE i \in 1 .. Len(Ops) : Ops[i] = op

Happened(op) == \E k \in 1 .. Len(events) : events[k].op = op

NodesOf(op) == { events[k].node : k \in { j \in 1 .. Len(events) : events[j].op = op } }

AllNodes == 0 .. (NumNodes - 1)

\* The chain: node i knows node i + 1, for i in 0 .. N-2.
Chain ==
  { [owner |-> i, peerId |-> At(nodes, i + 1), multiaddrs |-> i + 1] :
      i \in 0 .. (NumNodes - 2) }

\* Uninitialized 0, NodesStarted 1, Linked 2, Published 3, Queried 4,
\* Stopped 5, read from what the run has done to the network.
Phase ==
  IF stopped # { } THEN 5
  ELSE IF Happened("findProvidersReturned") THEN 4
  ELSE IF Happened("provideReturned") THEN 3
  ELSE IF Len(nodes) = NumNodes /\ addressBook = Chain THEN 2
  ELSE IF NodesOf("start") = AllNodes THEN 1
  ELSE 0

RunOrdered ==
  /\ \A a \in 1 .. (Len(events) - 1) :
       Rank(events[a].op) <= Rank(events[a + 1].op)
  /\ (\E k \in 1 .. Len(events) : Rank(events[k].op) > 1)
       => NodesOf("start") = AllNodes
  /\ Happened("delay") => NodesOf("link") = 0 .. (NumNodes - 2)
  /\ Happened("provide") => Happened("delay")
  /\ Happened("getClosestPeers") => Happened("provideReturned")
  /\ Happened("inspect") => Happened("getClosestPeersReturned")
  /\ Happened("findProviders") =>
       /\ Happened("getClosestPeersReturned")
       /\ Cardinality({ k \in 1 .. Len(events) : events[k].op = "inspect" })
            = Len(dhtnodes)
  /\ Cardinality({ k \in 1 .. Len(events) : events[k].op = "provide" }) <= 1
  /\ NodesOf("provide") \subseteq { NumNodes - 1 }
  /\ NodesOf("getClosestPeers") \subseteq { 0 }
  /\ NodesOf("findProviders") \subseteq { 0 }
  /\ stopped = NodesOf("stop")
  /\ stopped # { } => (Happened("findProvidersReturned") /\ stopped = AllNodes)

\* C7: the capability calls of a run happen in the order start (every node),
\* link (every link), delay, the one provide by the last node, closest-peers
\* query, inspections, findProviders from node 0, stop; the phase of the run
\* only ever moves to the next one.
C7_PhasesInOrder ==
  [] RunOrdered /\ [][Phase' = Phase \/ Phase' = Phase + 1]_vars

\* A run went through every phase and stopped its nodes.
C7_Witness ==
  /\ pc = "done"
  /\ Phase = 5
  /\ Happened("inspect")

\* The linking loop is over.
LinkingDone == Happened("delay")

\* C9: after the linking loop the address-book entries set by the harness
\* are, for every i in 0 .. N-2, the one of node i naming node i + 1 (its
\* peer id and addresses), and no other: nothing for node N-1.
C9_LinksFormChain ==
  LinkingDone =>
    /\ \A i \in 0 .. (NumNodes - 2) :
         \E e \in addressBook :
           e.owner = i /\ e.peerId = At(nodes, i + 1) /\ e.multiaddrs = i + 1
    /\ \A e \in addressBook :
         /\ e.owner \in 0 .. (NumNodes - 2)
         /\ e.peerId = At(nodes, e.owner + 1)
         /\ e.multiaddrs = e.owner + 1

\* The run is past linking with the N-1 links of the chain set.
C9_Witness ==
  /\ pc = "delay"
  /\ Cardinality(addressBook) = NumNodes - 1
  /\ Len(nodes) = NumNodes

=============================================================================
